---- MODULE Spec2Model ----
(***************************************************************************)
(* The navigation link component of the blog (HeaderLink.astro): on every  *)
(* render it reads its props and the request's URL path and computes       *)
(*                                                                         *)
(*   const { href, class: className, ...props } = Astro.props;            *)
(*   const { pathname } = Astro.url;                                       *)
(*   const isActive = href === pathname                                    *)
(*                 || href === pathname.replace(/\/$/, '');                *)
(*                                                                         *)
(* and emits <a href={href} class:list={[className, {active: isActive}]}>. *)
(*                                                                         *)
(* JavaScript values are records [type, chars]: a string is its sequence   *)
(* of characters, undefined is an absent prop.                             *)
(***************************************************************************)
EXTENDS Integers, Sequences, FiniteSets, TLC

VARIABLES pathname, href, className, isActive, replaced, anchor, pc, memo

vars == <<pathname, href, className, isActive, replaced, anchor, pc, memo>>

\* ---------------------------------------------------------------- bounds
\* Longest path or href the framework and the templates supply.
MaxLen == 4
\* Longest path or href in the specification that remembers an earlier render.
MaxHistLen == 2

\* ---------------------------------------------------------------- values
Slash == "/"
\* The characters of the modelled strings: the one the pattern looks for and
\* one it does not.
Chars == {Slash, "a"}

RECURSIVE SeqsUpTo(_)
SeqsUpTo(n) ==
    IF n = 0 THEN {<<>>}
    ELSE LET shorter == SeqsUpTo(n - 1)
         IN  shorter \cup {Append(s, c) : s \in {t \in shorter : Len(t) = n - 1}, c \in Chars}

Str(s) == [type |-> "string", chars |-> s]
Undefined == [type |-> "undefined", chars |-> <<>>]
\* The completion of an expression that threw a TypeError.
TypeError == [type |-> "TypeError", chars |-> <<>>]
\* The value of a subexpression that the short-circuit || did not evaluate.
NotEvaluated == [type |-> "notEvaluated", chars |-> <<>>]

IsString(v) == v.type = "string"

\* Astro.url.pathname: the path of a URL, a string that starts with "/".
Pathnames(n) == {Str(s) : s \in {t \in SeqsUpTo(n) : Len(t) >= 1 /\ t[1] = Slash}}
\* The href prop: HTMLAttributes<'a'> makes it optional, any string as authored.
Hrefs(n) == {Str(s) : s \in SeqsUpTo(n)} \cup {Undefined}
\* The class name the template toggles and the stylesheet's a.active selects.
Active == <<"a", "c", "t", "i", "v", "e">>
\* The class prop: optional, any class name, the toggled one included.
ClassNames == {Undefined, Str(<<"n", "a", "v">>), Str(Active)}

\* ------------------------------------------------------------- operators
\* JavaScript's === : same type and, for strings, the same characters.
StrictEquals(x, y) ==
    /\ x.type = y.type
    /\ (x.type = "string" => x.chars = y.chars)

\* The positions at which the regular expression /\/$/ matches: a "/" that is
\* followed by the end of the input (no m flag, so $ is the end of the string).
MatchPositions(s) == {i \in 1..Len(s) : s[i] = Slash /\ i = Len(s)}

\* String.prototype.replace with the pattern mutated to /\/+$/ : every
\* trailing "/" is removed.
RECURSIVE StripAllTrailing(_)
StripAllTrailing(s) ==
    IF Len(s) >= 1 /\ s[Len(s)] = Slash THEN StripAllTrailing(SubSeq(s, 1, Len(s) - 1))
    ELSE s

ReplaceGreedy(s) == StripAllTrailing(s)

\* The pattern mutated to /^\// : the leading "/" is removed instead.
ReplaceLeading(s) ==
    IF Len(s) >= 1 /\ s[1] = Slash THEN SubSeq(s, 2, Len(s)) ELSE s

\* s.replace(/\/$/, ''): without the g flag the first match (the leftmost) is
\* replaced by the empty string and the rest of the string is kept.
ReplaceTrailingSlash(s) ==
    LET m == MatchPositions(s)
    IN  IF m = {} THEN s
        ELSE LET i == CHOOSE k \in m : \A j \in m : k <= j
             IN  SubSeq(s, 1, i - 1) \o SubSeq(s, i + 1, Len(s))

\* The method call v.replace(/\/$/, ''): a TypeError on a receiver that is
\* not a string.
replace(v) == IF IsString(v) THEN Str(ReplaceTrailingSlash(v.chars)) ELSE TypeError

Outcome(threw, active, repl) == [threw |-> threw, isActive |-> active, replaced |-> repl]

\* Mutant: the slash is stripped from the href instead of the path.
EvaluateNormalisingHref(h, p) ==
    IF StrictEquals(h, p) THEN Outcome(FALSE, TRUE, NotEvaluated)
    ELSE LET r == replace(h)
         IN  IF r = TypeError THEN Outcome(TRUE, FALSE, r)
             ELSE Outcome(FALSE, StrictEquals(r, p), r)

\* Mutant: the slash is stripped from both sides.
EvaluateNormalisingBoth(h, p) ==
    IF StrictEquals(h, p) THEN Outcome(FALSE, TRUE, NotEvaluated)
    ELSE LET r == replace(p)
             g == IF IsString(h) THEN replace(h) ELSE h
         IN  Outcome(FALSE, StrictEquals(g, r) \/ StrictEquals(h, r), r)

\* Mutant: the exact comparison is dropped, only the stripped path is compared.
EvaluateStrippedOnly(h, p) ==
    LET r == replace(p) IN Outcome(FALSE, StrictEquals(h, r), r)

\* Mutant: a prefix match, the link stays active on the pages below it.
EvaluatePrefix(h, p) ==
    IF StrictEquals(h, p) THEN Outcome(FALSE, TRUE, NotEvaluated)
    ELSE LET r == replace(p)
         IN  Outcome(FALSE,
                     /\ IsString(h)
                     /\ Len(h.chars) >= 1
                     /\ Len(h.chars) <= Len(r.chars)
                     /\ SubSeq(r.chars, 1, Len(h.chars)) = h.chars,
                     r)

\* Mutant: isActive is kept in a variable shared between renders and only
\* ever or-ed into, so a link rendered after an active one is active too.
EvaluateSticky(h, p) ==
    IF StrictEquals(h, p) THEN Outcome(FALSE, TRUE, NotEvaluated)
    ELSE LET r == replace(p)
         IN  IF r = TypeError THEN Outcome(TRUE, FALSE, r)
             ELSE Outcome(FALSE, isActive \/ StrictEquals(h, r), r)

\* const isActive = href === pathname || href === pathname.replace(/\/$/, '');
\* || evaluates its right operand only when the left one is false.
Evaluate(h, p) ==
    IF StrictEquals(h, p) THEN Outcome(FALSE, TRUE, NotEvaluated)
    ELSE LET r == replace(p)
         IN  IF r = TypeError THEN Outcome(TRUE, FALSE, r)
             ELSE Outcome(FALSE, StrictEquals(h, r), r)

\* Mutant: class={isActive ? 'active' : className}: the marker replaces the
\* caller's class instead of joining it.
ClassListMarkerOnly(c, active) ==
    IF active THEN <<Active>>
    ELSE IF IsString(c) /\ Len(c.chars) > 0 THEN <<c.chars>> ELSE <<>>

\* class:list={[className, { active: isActive }]}: the truthy entries, in order.
ClassList(c, active) ==
    (IF IsString(c) /\ Len(c.chars) > 0 THEN <<c.chars>> ELSE <<>>)
        \o (IF active THEN <<Active>> ELSE <<>>)

\* <a href={href} class:list={[className, { active: isActive }]} {...props}>:
\* href and class were taken out of props, so the spread sets neither.
Anchor(h, c, active) == [href |-> h, classList |-> ClassList(c, active)]

NoAnchor == [href |-> Undefined, classList |-> <<>>]
NoMemo == [taken |-> FALSE, pathname |-> Undefined, href |-> Undefined, isActive |-> FALSE]

\* ------------------------------------------------------------ the machine
TypeOK ==
    /\ pathname \in Pathnames(MaxLen)
    /\ href \in Hrefs(MaxLen)
    /\ replaced \in Hrefs(MaxLen) \cup {NotEvaluated, TypeError}
    /\ className \in ClassNames
    /\ isActive \in BOOLEAN
    /\ pc \in {"idle", "rendered", "error"}

InitWith(paths) ==
    /\ pathname \in paths
    /\ href = Undefined
    /\ className = Undefined
    /\ isActive = FALSE
    /\ replaced = NotEvaluated
    /\ anchor = NoAnchor
    /\ pc = "idle"
    /\ memo = NoMemo

\* The framework starts rendering the page of another request: Astro.url is
\* the new request's URL and no link of it has been rendered yet.
RequestPage(p) ==
    /\ pathname' = p
    /\ href' = Undefined
    /\ className' = Undefined
    /\ isActive' = FALSE
    /\ replaced' = NotEvaluated
    /\ anchor' = NoAnchor
    /\ pc' = "idle"
    /\ UNCHANGED memo

\* One render of the component with the props (href, class).
RenderLink(h, c) ==
    /\ pc # "error"
    /\ LET out == Evaluate(h, pathname)
       IN  /\ href' = h
           /\ className' = c
           /\ replaced' = out.replaced
           /\ IF out.threw
              THEN /\ pc' = "error"
                   /\ isActive' = FALSE
                   /\ anchor' = NoAnchor
              ELSE /\ pc' = "rendered"
                   /\ isActive' = out.isActive
                   /\ anchor' = Anchor(h, c, out.isActive)
    /\ UNCHANGED <<pathname, memo>>

\* Bookkeeping of the verification, not of the program: keep the inputs and
\* the result of the render just made, to compare later renders with it.
Remember ==
    /\ pc = "rendered"
    /\ memo' = [taken |-> TRUE, pathname |-> pathname, href |-> href, isActive |-> isActive]
    /\ UNCHANGED <<pathname, href, className, isActive, replaced, anchor, pc>>

AllPathnames == Pathnames(MaxLen)
AllHrefs == Hrefs(MaxLen)

Init == InitWith(AllPathnames)

Request == \E p \in AllPathnames : RequestPage(p)

Render == \E h \in AllHrefs, c \in ClassNames : RenderLink(h, c)

Next == Request \/ Render

Spec == Init /\ [][Next]_vars

HistPathnames == Pathnames(MaxHistLen)
HistHrefs == Hrefs(MaxHistLen)

InitHistory == InitWith(HistPathnames)

RequestHistory == \E p \in HistPathnames : RequestPage(p)

RenderHistory == \E h \in HistHrefs, c \in ClassNames : RenderLink(h, c)

NextHistory == RequestHistory \/ RenderHistory \/ Remember

SpecHistory == InitHistory /\ [][NextHistory]_vars

\* ------------------------------------------------------------- the claims
Root == Str(<<Slash>>)
Empty == Str(<<>>)
Blog == Str(<<Slash, "a">>)
BlogSlash == Str(<<Slash, "a", Slash>>)
BlogSlashSlash == Str(<<Slash, "a", Slash, Slash>>)
BlogPost == Str(<<Slash, "a", Slash, "a">>)

\* The reference rule's stripTrailingSlash, as the specification words it: one
\* trailing "/" is removed only from a string longer than one character.
stripTrailingSlash(s) ==
    IF Len(s) > 1 /\ s[Len(s)] = Slash THEN SubSeq(s, 1, Len(s) - 1) ELSE s

\* p is a page below t: t, a "/" and at least one more character.
IsSubPage(p, t) ==
    /\ Len(p) >= Len(t) + 2
    /\ SubSeq(p, 1, Len(t) + 1) = t \o <<Slash>>

\* C1: for every path and every href string, the isActive the component
\* computes equals (href = path) or (href = stripTrailingSlash(path)), where
\* stripTrailingSlash leaves a string of one character alone.
C1_ReferenceRule ==
    (pc = "rendered" /\ IsString(href)) =>
        isActive = (\/ href.chars = pathname.chars
                    \/ href.chars = stripTrailingSlash(pathname.chars))

\* C2: a link whose href is a non-root string p (longer than one character) is
\* active on the path p followed by one "/".
C2_TrailingSlashMatches ==
    (/\ pc = "rendered"
     /\ IsString(href)
     /\ Len(href.chars) > 1
     /\ pathname.chars = href.chars \o <<Slash>>) => isActive

C2_Witness ==
    pc = "rendered" /\ pathname = BlogSlash /\ href = Blog /\ isActive

\* C3: no prefix matching: on a page below the href (href, "/", and at least
\* one more character) the link is inactive, and an active link's path is its
\* href or its href followed by exactly one "/".
C3_NoPrefixMatching ==
    pc = "rendered" =>
        /\ (IsString(href) /\ IsSubPage(pathname.chars, href.chars) => ~isActive)
        /\ (isActive =>
                /\ IsString(href)
                /\ \/ pathname.chars = href.chars
                   \/ pathname.chars = href.chars \o <<Slash>>)

C3_Witness ==
    pc = "rendered" /\ pathname = BlogPost /\ href = Blog /\ ~isActive

\* C4: an href equal to the path is always active, the root "/" and paths
\* that end in "/" included.
C4_ExactMatchActive ==
    (pc = "rendered" /\ IsString(href) /\ href.chars = pathname.chars) => isActive

C4_Witness ==
    pc = "rendered" /\ pathname = Root /\ href = Root /\ isActive

\* C5: on the root path "/" the stripped value that is compared with the href
\* is still "/", never the empty string.
C5_RootNeverAltered ==
    (pc = "rendered" /\ pathname = Root /\ replaced # NotEvaluated) =>
        (replaced = Root /\ replaced # Empty)

\* C6: only the path is normalised: an href that is the path followed by "/"
\* is inactive, while a non-root href on the path href + "/" is active.
C6_OnlyPathNormalised ==
    (pc = "rendered" /\ IsString(href)) =>
        /\ (href.chars = pathname.chars \o <<Slash>> => ~isActive)
        /\ ((Len(href.chars) > 1 /\ pathname.chars = href.chars \o <<Slash>>)
                => isActive)

C6_Witness ==
    pc = "rendered" /\ pathname = Blog /\ href = BlogSlash /\ ~isActive

\* C7: an href that is empty or does not start with "/" is never active, on
\* any path, the root included.
C7_MalformedNeverActive ==
    (/\ pc = "rendered"
     /\ IsString(href)
     /\ (href.chars = <<>> \/ href.chars[1] # Slash)) => ~isActive

\* C8: exactly one trailing "/" is removed: on the path p + "//" (p non-root,
\* not ending in "/") the href p + "/" is active and the href p is not, and
\* every character of the path but a last "/" is kept.
C8_ExactlyOneSlash ==
    pc = "rendered" =>
        LET s == pathname.chars
            n == Len(s)
            p == SubSeq(s, 1, n - 2)
        IN  /\ (/\ n >= 4
                /\ s[n] = Slash
                /\ s[n - 1] = Slash
                /\ s[n - 2] # Slash) =>
                   /\ (href = Str(p \o <<Slash>>) => isActive)
                   /\ (href = Str(p) => ~isActive)
            /\ replaced # NotEvaluated =>
                   /\ IsString(replaced)
                   /\ \/ replaced.chars = s
                      \/ /\ n >= 1
                         /\ s[n] = Slash
                         /\ replaced.chars = SubSeq(s, 1, n - 1)

C8_Witness ==
    pc = "rendered" /\ pathname = BlogSlashSlash /\ href = BlogSlash /\ isActive

C10_NeverFails ==
    /\ [](pc # "error" /\ replaced # TypeError /\ isActive \in BOOLEAN)
    /\ [][pc' # "idle" => pc' = "rendered"]_vars

C10_Witness ==
    pc = "rendered" /\ href = Undefined /\ pathname = Root /\ ~isActive

\* The class names of the emitted anchor's class attribute.
Classes(a) == {a.classList[i] : i \in 1..Len(a.classList)}

\* C11 as stated: the emitted href is the href prop as passed, the caller's
\* class is kept in the class list, and "active" is in the class list if and
\* only if isActive is true.
C11_ActiveIffIsActive ==
    pc = "rendered" =>
        /\ anchor.href = href
        /\ ((IsString(className) /\ Len(className.chars) > 0)
                => className.chars \in Classes(anchor))
        /\ (Active \in Classes(anchor) <=> isActive)

\* C11, amended: the emitted href is the href prop as passed (no slash added
\* or stripped), the caller's class is kept in the class list, and "active" is
\* in the class list if and only if isActive is true or the caller's class is
\* itself "active".
C11_AnchorUntouched ==
    pc = "rendered" =>
        /\ anchor.href = href
        /\ ((IsString(className) /\ Len(className.chars) > 0)
                => className.chars \in Classes(anchor))
        /\ (Active \in Classes(anchor) <=> (isActive \/ className = Str(Active)))

C11_Witness ==
    /\ pc = "rendered"
    /\ pathname = BlogSlash
    /\ href = Blog
    /\ isActive
    /\ className = Str(<<"n", "a", "v">>)
    /\ anchor = [href |-> Blog, classList |-> <<<<"n", "a", "v">>, Active>>]

====
